---- MODULE Spec2Model ----
(***************************************************************************)
(* Retrieval engine of supa-crawl-chat: the page store written by          *)
(* SupabaseClient.add_pages, the three searches of SupabaseClient          *)
(* (search_by_text, search_by_embedding, hybrid_search) and the strategy   *)
(* dispatch of ChatBot.search_for_context.                                 *)
(*                                                                         *)
(* Text is a sequence of one-character strings, so that substring tests,   *)
(* lower-casing, whitespace splitting and the domain regular expression    *)
(* are computed, not assumed.  Scores are integers in thousandths          *)
(* (650 is 0.65).                                                          *)
(***************************************************************************)
EXTENDS Integers, Sequences, FiniteSets, TLC

VARIABLES
    pages,   \* crawl_pages: sequence of rows, pages[i].id = i (serial key)
    tie,     \* order in which the store yields rows that ORDER BY leaves tied
    ret,     \* the last call of a SupabaseClient method and what it returned
    chat     \* the ChatBot.search_for_context call in progress

vars == <<pages, tie, ret, chat>>

(***************************************************************************)
(* Bounds of the model.                                                    *)
(***************************************************************************)
MaxRows == 3      \* rows the store may hold
MaxBatch == 2     \* pages in one add_pages call
MaxLimit == 2     \* largest `limit` argument of a search

(***************************************************************************)
(* Text.                                                                   *)
(***************************************************************************)
Alnum == {"a", "b", "c", "d", "e", "f", "g", "h", "i", "k", "l", "m", "n",
          "o", "p", "r", "s", "t", "u", "v", "w", "x", "y", "z", "0", "1",
          "A", "D", "U", "X"}

LowerChar(c) ==
    CASE c = "A" -> "a" [] c = "D" -> "d" [] c = "U" -> "u" [] c = "X" -> "x"
      [] OTHER -> c

\* str.lower()
LowerStr(s) == [i \in 1..Len(s) |-> LowerChar(s[i])]

\* `sub in s` of Python, and SQL `s LIKE '%sub%'` for a sub without wildcards
Contains(s, sub) ==
    \E i \in 0..(Len(s) - Len(sub)) : SubSeq(s, i + 1, i + Len(sub)) = sub

\* SQL `s ILIKE '%sub%'`
ILike(s, sub) == Contains(LowerStr(s), LowerStr(sub))

RECURSIVE SplitFrom(_, _, _)
SplitFrom(s, i, cur) ==
    IF i > Len(s) THEN (IF cur = <<>> THEN <<>> ELSE <<cur>>)
    ELSE IF s[i] = " "
         THEN (IF cur = <<>> THEN <<>> ELSE <<cur>>) \o SplitFrom(s, i + 1, <<>>)
         ELSE SplitFrom(s, i + 1, Append(cur, s[i]))

\* str.split(): the whitespace-separated tokens
Split(s) == SplitFrom(s, 1, <<>>)

RECURSIVE IndexOfFrom(_, _, _)
IndexOfFrom(s, c, i) ==
    IF i > Len(s) THEN 0 ELSE IF s[i] = c THEN i ELSE IndexOfFrom(s, c, i + 1)

\* url.split('#')[0] if '#' in url else url
StripFragment(url) ==
    LET k == IndexOfFrom(url, "#", 1)
    IN  IF k = 0 THEN url ELSE SubSeq(url, 1, k - 1)

(***************************************************************************)
(* The store.  A row of crawl_pages; embedding <<>> is NULL, chunk_index   *)
(* -1 is NULL, parent_id 0 is NULL.                                        *)
(***************************************************************************)
SiteIds == {1, 2}

Row(id, site_id, p, parent_id) ==
    [id |-> id, site_id |-> site_id, url |-> p.url, title |-> p.title,
     content |-> p.content, summary |-> p.summary, embedding |-> p.embedding,
     is_chunk |-> p.is_chunk,
     chunk_index |-> IF p.is_chunk THEN p.chunk_index ELSE -1,
     parent_id |-> parent_id]

RowIds(rows) == 1..Len(rows)

\* an existence check that never finds the row
ExistingParentMissed(rows, url) == 0

\* cur.fetchone() of `SELECT id FROM crawl_pages WHERE url = %s AND
\* (is_chunk IS NULL OR is_chunk = FALSE)`; 0 stands for None
ExistingParent(rows, url) ==
    LET S == {i \in RowIds(rows) : rows[i].url = url /\ ~rows[i].is_chunk}
    IN  IF S = {} THEN 0 ELSE CHOOSE i \in S : \A j \in S : i <= j

\* cur.fetchone() of `SELECT id FROM crawl_pages WHERE url = %s AND
\* is_chunk = TRUE AND chunk_index = %s`
ExistingChunk(rows, url, chunk_index) ==
    LET S == {i \in RowIds(rows) : /\ rows[i].url = url
                                   /\ rows[i].is_chunk
                                   /\ rows[i].chunk_index = chunk_index}
    IN  IF S = {} THEN 0 ELSE CHOOSE i \in S : \A j \in S : i <= j

\* dict.get on parent_url_to_id; 0 stands for None
MapGet(m, url) == IF url \in DOMAIN m THEN m[url] ELSE 0

MapPut(m, url, id) ==
    [u \in (DOMAIN m) \cup {url} |-> IF u = url THEN id ELSE m[u]]

\* one iteration of `for page in parent_pages`; st = [rows, map, ids]
ParentStep(st, site_id, p) ==
    LET existing == ExistingParent(st.rows, p.url)
        page_id == IF existing # 0 THEN existing ELSE Len(st.rows) + 1
        rows2 ==
            IF existing # 0
            THEN [st.rows EXCEPT ![existing] =
                     [@ EXCEPT !.title = p.title, !.content = p.content,
                               !.summary = p.summary, !.embedding = p.embedding,
                               !.is_chunk = FALSE, !.chunk_index = -1,
                               !.parent_id = 0]]
            ELSE Append(st.rows, Row(page_id, site_id, p, 0))
    IN  [rows |-> rows2, map |-> MapPut(st.map, p.url, page_id),
         ids |-> Append(st.ids, page_id)]

\* a chunk loop that stores the chunk whether or not a parent was found
ParentMissingIgnored(parent_id) == FALSE

\* `if not parent_id:` -- the chunk is skipped
ParentMissing(parent_id) == parent_id = 0

\* one iteration of `for chunk in chunk_pages`
ChunkStep(st, site_id, c) ==
    LET parent_url == StripFragment(c.url)
        parent_id == MapGet(st.map, parent_url)
        existing == ExistingChunk(st.rows, c.url, c.chunk_index)
        chunk_id == IF existing # 0 THEN existing ELSE Len(st.rows) + 1
        rows2 ==
            IF existing # 0
            THEN [st.rows EXCEPT ![existing] =
                     [@ EXCEPT !.title = c.title, !.content = c.content,
                               !.summary = c.summary, !.embedding = c.embedding,
                               !.parent_id = parent_id]]
            ELSE Append(st.rows, Row(chunk_id, site_id, c, parent_id))
    IN  IF ParentMissing(parent_id)
        THEN st
        ELSE [st EXCEPT !.rows = rows2, !.ids = Append(@, chunk_id)]

RECURSIVE ParentLoop(_, _, _, _)
ParentLoop(st, site_id, ps, i) ==
    IF i > Len(ps) THEN st
    ELSE ParentLoop(ParentStep(st, site_id, ps[i]), site_id, ps, i + 1)

RECURSIVE ChunkLoop(_, _, _, _)
ChunkLoop(st, site_id, cs, i) ==
    IF i > Len(cs) THEN st
    ELSE ChunkLoop(ChunkStep(st, site_id, cs[i]), site_id, cs, i + 1)

\* Where an exception is raised inside add_pages: nowhere; before the
\* first commit (in _get_connection, the parent loop or that commit: nothing
\* is written); or after it (in the chunk loop or the second commit: the
\* committed parents stay, the chunk phase is rolled back).
Faults == {"none", "parents", "chunks"}

\* an error handler after which nothing of the call is stored
StoredAfterErrorNothing(before, committed, fault) == before

\* The store after `except Exception as e: ... return []`: what was written
\* since the last conn.commit() is rolled back when the connection block is
\* left.  before is the store at the call, committed the store at the
\* conn.commit() that follows the parent loop.
StoredAfterError(before, committed, fault) ==
    IF fault = "parents" THEN before ELSE committed

\* add_pages(site_id, pages): [rows |-> the store afterwards, ids |-> the
\* returned list]
AddPagesOp(rows, site_id, batch, fault) ==
    LET IsParent(p) == ~p.is_chunk
        IsChunk(p) == p.is_chunk
        parent_pages == SelectSeq(batch, IsParent)
        chunk_pages == SelectSeq(batch, IsChunk)
        st0 == [rows |-> rows, map |-> <<>>, ids |-> <<>>]
        st1 == ParentLoop(st0, site_id, parent_pages, 1)
        st2 == ChunkLoop(st1, site_id, chunk_pages, 1)
    IN  IF batch = <<>> THEN [rows |-> rows, ids |-> <<>>]
        ELSE IF fault # "none"
        THEN [rows |-> StoredAfterError(rows, st1.rows, fault), ids |-> <<>>]
        ELSE [rows |-> st2.rows, ids |-> st2.ids]

(***************************************************************************)
(* What the store computes for a query: ORDER BY ... LIMIT, the full-text  *)
(* predicate and rank, cosine similarity.                                  *)
(***************************************************************************)
TiePos(i) == CHOOSE k \in DOMAIN tie : tie[k] = i

\* The ids of S ordered by the key k1 descending, then the key k2 ascending
\* (k1, k2: functions on row ids); rows the ORDER BY leaves tied come in the
\* order the store happens to yield them (tie).
OrderBy(S, k1, k2) ==
    LET Before(a, b) ==
            \/ k1[a] > k1[b]
            \/ k1[a] = k1[b] /\ k2[a] < k2[b]
            \/ k1[a] = k1[b] /\ k2[a] = k2[b] /\ TiePos(a) < TiePos(b)
    IN  [k \in 1..Cardinality(S) |->
            CHOOSE x \in S : Cardinality({y \in S : Before(y, x)}) = k - 1]

\* a slice that cuts nothing
TakeAll(seq, n) == seq

\* seq[:n]
Take(seq, n) == SubSeq(seq, 1, IF n < Len(seq) THEN n ELSE Len(seq))

\* english stop words among the words of the model
StopWords == {<<"a">>, <<"i", "s">>}

\* to_tsvector / plainto_tsquery: lower-cased words, stop words dropped
Lexemes(text) ==
    LET NotStop(w) == w \notin StopWords
    IN  SelectSeq(Split(LowerStr(text)), NotStop)

SeqToSet(seq) == {seq[i] : i \in DOMAIN seq}

DocLexemes(row) == Lexemes(row.title \o <<" ">> \o row.content)

\* to_tsvector(title || ' ' || content) @@ plainto_tsquery(query)
FtsMatch(row, query) ==
    LET ql == SeqToSet(Lexemes(query))
    IN  ql # {} /\ ql \subseteq SeqToSet(DocLexemes(row))

\* ts_rank_cd, reduced to what the ordering needs: 0.1 for each occurrence
\* of a query word in the document
Rank(row, query) ==
    LET ql == SeqToSet(Lexemes(query))
        dl == DocLexemes(row)
    IN  100 * Cardinality({i \in DOMAIN dl : dl[i] \in ql})

Dot(a, b) ==
    LET RECURSIVE Sum(_)
        Sum(i) == IF i = 0 THEN 0 ELSE a[i] * b[i] + Sum(i - 1)
    IN  Sum(Len(a))

\* the vectors of the model have integer lengths
Norm(a) == CHOOSE n \in 0..25 : n * n = Dot(a, a)

\* 1 - (embedding <=> query), in thousandths
Similarity(a, b) == (1000 * Dot(a, b)) \div (Norm(a) * Norm(b))

(***************************************************************************)
(* search_by_text                                                          *)
(***************************************************************************)
IsLabelChar(c) == c \in Alnum \cup {"-"}

RECURSIVE RunEnd(_, _)
\* first index after the run of [-a-zA-Z0-9] that starts at i
RunEnd(s, i) ==
    IF i <= Len(s) /\ IsLabelChar(s[i]) THEN RunEnd(s, i + 1) ELSE i

RECURSIVE Labels(_, _, _)
\* The match of ([a-zA-Z0-9][-a-zA-Z0-9]*\.)+[a-zA-Z0-9][-a-zA-Z0-9]* that
\* starts where the first label does; starts = where each repetition of the
\* group began, p = where the next label would begin.  whole is the text
\* matched, group what the one capturing group holds at the end: its last
\* repetition.
Labels(s, p, starts) ==
    IF p <= Len(s) /\ s[p] \in Alnum
    THEN LET e == RunEnd(s, p)
         IN  IF e <= Len(s) /\ s[e] = "."
             THEN Labels(s, e + 1, Append(starts, p))
             ELSE IF Len(starts) >= 1
                  THEN [ok |-> TRUE, end |-> e - 1,
                        whole |-> SubSeq(s, starts[1], e - 1),
                        group |-> SubSeq(s, starts[Len(starts)], p - 1)]
                  ELSE [ok |-> FALSE]
    ELSE IF Len(starts) >= 2
         THEN [ok |-> TRUE, end |-> p - 2,
               whole |-> SubSeq(s, starts[1], p - 2),
               group |-> SubSeq(s, starts[Len(starts) - 1],
                                starts[Len(starts)] - 1)]
         ELSE [ok |-> FALSE]

RECURSIVE FindAllFrom(_, _)
FindAllFrom(s, i) ==
    IF i > Len(s) THEN <<>>
    ELSE LET m == Labels(s, i, <<>>)
         IN  IF m.ok THEN <<m.group>> \o FindAllFrom(s, m.end + 1)
             ELSE FindAllFrom(s, i + 1)

\* domain_pattern.findall(query.lower()): with one capturing group in the
\* pattern, findall returns what the group captured, not the whole match
Domains(query) == FindAllFrom(LowerStr(query), 1)

\* A site_id argument: 0 is None, a member of SiteIds is an integer, -1 is
\* a value int() rejects.
SiteArgs == SiteIds \cup {0, -1}

IsNone(site_id) == site_id = 0
IsMalformed(site_id) == site_id < 0

\* a statement without its site filter
SiteFilterDropped(row, site_id) == TRUE

\* `AND p.site_id = %s`, which the statements carry when site_id is given
\* and int() takes it
SiteFilter(row, site_id) ==
    IsNone(site_id) \/ IsMalformed(site_id) \/ row.site_id = site_id

\* chunks ordered before the other pages
ChunkKeyReversed(row) == IF row.is_chunk THEN 0 ELSE 1

\* p.is_chunk ASC
ChunkKey(row) == IF row.is_chunk THEN 1 ELSE 0

\* a title stage that never ends the search
TitleStageFallsThrough(title_results) == FALSE

\* `if title_results:` -- the title stage ends the search
TitleStageReturns(title_results) == title_results # <<>>

\* a full-text stage that ends the search whatever it found
FullTextStageReturnsAlways(all_results) == TRUE

\* `if not all_results:` -- the full-text stage ends the search unless it
\* found nothing
FullTextStageReturns(all_results) == all_results # <<>>

TextResult(row, rank) ==
    [id |-> row.id, site_id |-> row.site_id, url |-> row.url,
     is_chunk |-> row.is_chunk, parent_id |-> row.parent_id, rank |-> rank]

\* Where search_by_text raises inside its try block: nowhere, in
\* _get_connection, or in the cur.execute of the named statement.
TextFaults == {"none", "connect", "domain", "title", "fts", "ilike"}

\* a handler that lets the error out
OnTextErrorRaise(stages) == [res |-> <<>>, stages |-> stages, raised |-> TRUE]

\* `except Exception as e: ... return []` of search_by_text; stages are the
\* statements executed before the error
OnTextError(stages) == [res |-> <<>>, stages |-> stages, raised |-> FALSE]

\* search_by_text(query, limit, site_id): res is the returned list, stages
\* the statements the store executed, raised whether an exception left the
\* method.
SearchByText(rows, query, limit, site_id, fault) ==
    LET domains == Domains(query)
        InSite(i) == SiteFilter(rows[i], site_id)
        rank == [i \in RowIds(rows) |-> Rank(rows[i], query)]
        fixed == [i \in RowIds(rows) |-> 0]
        byChunk == [i \in RowIds(rows) |-> ChunkKey(rows[i])]
        Results(ids, rankOf) ==
            [k \in DOMAIN ids |-> TextResult(rows[ids[k]], rankOf[ids[k]])]
        Failed(stages) == OnTextError(stages)
        \* the domain-prioritized statement
        domainSet == {i \in RowIds(rows) :
                        /\ FtsMatch(rows[i], query)
                        /\ InSite(i)
                        /\ \E d \in DOMAIN domains : Contains(rows[i].url, domains[d])}
        domainRows == Results(Take(OrderBy(domainSet, rank, byChunk), limit * 2), rank)
        \* the title statement: rank 1.0, LIMIT limit
        titleSet == {i \in RowIds(rows) : ILike(rows[i].title, query) /\ InSite(i)}
        titleRank == [i \in RowIds(rows) |-> 1000]
        titleRows == Results(Take(OrderBy(titleSet, fixed, byChunk), limit), titleRank)
        \* the full-text statement: LIMIT limit * 2
        ftsSet == {i \in RowIds(rows) : FtsMatch(rows[i], query) /\ InSite(i)}
        ftsRows == Results(Take(OrderBy(ftsSet, rank, byChunk), limit * 2), rank)
        \* the relaxed statement: rank 0.5, LIMIT limit
        ilikeSet == {i \in RowIds(rows) :
                        /\ ILike(rows[i].title, query) \/ ILike(rows[i].content, query)
                        /\ InSite(i)}
        ilikeRank == [i \in RowIds(rows) |-> 500]
        ilikeRows == Results(Take(OrderBy(ilikeSet, fixed, byChunk), limit), ilikeRank)
    IN  IF fault = "connect" THEN Failed(<<>>)
        ELSE IF domains # <<>>
        THEN IF fault = "domain" THEN Failed(<<>>)
             ELSE [res |-> Take(domainRows, limit), stages |-> <<"domain">>,
                   raised |-> FALSE]
        \* title_params gets site_id whenever it is not None, also when int()
        \* rejected it and the statement has no placeholder for it: execute raises
        ELSE IF IsMalformed(site_id) \/ fault = "title" THEN Failed(<<>>)
        ELSE IF TitleStageReturns(titleRows)
        THEN [res |-> Take(titleRows, limit), stages |-> <<"title">>,
              raised |-> FALSE]
        ELSE IF fault = "fts" THEN Failed(<<"title">>)
        ELSE IF FullTextStageReturns(ftsRows)
        THEN [res |-> Take(ftsRows, limit), stages |-> <<"title", "fts">>,
              raised |-> FALSE]
        ELSE IF fault = "ilike" THEN Failed(<<"title", "fts">>)
        ELSE [res |-> Take(ilikeRows, limit),
              stages |-> <<"title", "fts", "ilike">>, raised |-> FALSE]

(***************************************************************************)
(* search_by_embedding                                                     *)
(***************************************************************************)
\* the comparison the other way round
BelowThreshold(similarity, threshold) == similarity <= threshold

\* `if result["similarity"] >= threshold`
AboveThreshold(similarity, threshold) == similarity >= threshold

\* a handler that lets the error of the similarity statement out
OnVectorQueryErrorRaise == [res |-> <<>>, queried |-> TRUE, raised |-> TRUE]

\* `except Exception as e: ... return []` around the similarity statement
OnVectorQueryError == [res |-> <<>>, queried |-> TRUE, raised |-> FALSE]

VectorResult(row, similarity) ==
    [id |-> row.id, site_id |-> row.site_id, url |-> row.url,
     is_chunk |-> row.is_chunk, parent_id |-> row.parent_id,
     similarity |-> similarity]

\* Where search_by_embedding fails: nowhere, in _get_connection, in the
\* COUNT statement, in the configuration checks (an exception, the
\* extension missing, a column that is not a vector), or in the
\* similarity statement.
VectorFaults == {"none", "connect", "count", "config", "noext", "coltype", "query"}

\* search_by_embedding(embedding, threshold, limit, site_id): queried tells
\* whether the similarity statement was sent to the store.
SearchByEmbedding(rows, embedding, threshold, limit, site_id, fault) ==
    LET \* a site_id int() rejects is replaced by None
        InSite(i) == SiteFilter(rows[i], site_id)
        withEmbedding == {i \in RowIds(rows) : rows[i].embedding # <<>> /\ InSite(i)}
        count == Cardinality(withEmbedding)
        \* the <=> operator raises on vectors of different dimensions, and
        \* the cast of '[]' to vector raises
        mismatch == embedding = <<>>
                    \/ \E i \in withEmbedding : Len(rows[i].embedding) # Len(embedding)
        Sim(i) == Similarity(rows[i].embedding, embedding)
        similarity == [i \in withEmbedding |-> Sim(i)]
        fixed == [i \in withEmbedding |-> 0]
        all_rows == Take(OrderBy(withEmbedding, similarity, fixed), limit * 2)
        Keep(i) == AboveThreshold(Sim(i), threshold)
        kept == SelectSeq(all_rows, Keep)
        NotQueried == [res |-> <<>>, queried |-> FALSE, raised |-> FALSE]
    IN  IF fault \in {"connect", "count"} THEN NotQueried
        ELSE IF count = 0 THEN NotQueried
        ELSE IF fault \in {"config", "noext", "coltype"} THEN NotQueried
        ELSE IF fault = "query" \/ mismatch THEN OnVectorQueryError
        ELSE [res |-> [k \in DOMAIN kept |-> VectorResult(rows[kept[k]], Sim(kept[k]))],
              queried |-> TRUE, raised |-> FALSE]

(***************************************************************************)
(* hybrid_search                                                           *)
(***************************************************************************)
Max(a, b) == IF a >= b THEN a ELSE b

\* the similarity and text_score given to every text result: 0.65
TextScore == 650

\* the threshold handed on as it came
VectorThresholdUnrelaxed(threshold) == threshold

\* vector_threshold = max(threshold * 0.7, 0.2)
VectorThreshold(threshold) == Max((threshold * 7) \div 10, 200)

\* the average the comment above the assignment speaks of
CombinedSimilarityAveraged(vector_score) == (vector_score + TextScore) \div 2

\* combined_results[url]['similarity'] = max(vector_score, 0.65)
CombinedSimilarity(vector_score) == Max(vector_score, TextScore)

\* `if url:` -- results with an empty url are left out of combined_results
HasUrl(result) == result.url # <<>>

KeyIndex(entries, url) ==
    LET S == {k \in DOMAIN entries : entries[k].url = url}
    IN  IF S = {} THEN 0 ELSE CHOOSE k \in S : TRUE

\* combined_results[url] = result, for a vector result
PutVector(entries, r) ==
    LET v == [vector_score |-> r.similarity, text_score |-> 0] @@ r
        k == KeyIndex(entries, r.url)
    IN  IF ~HasUrl(r) THEN entries
        ELSE IF k # 0 THEN [entries EXCEPT ![k] = v]
        ELSE Append(entries, v)

\* the body of `for result in text_results` of the merge
PutText(entries, r) ==
    LET k == KeyIndex(entries, r.url)
        e == entries[k]
    IN  IF ~HasUrl(r) THEN entries
        ELSE IF k # 0
        THEN [entries EXCEPT ![k] =
                 [e EXCEPT !.text_score = TextScore,
                           !.similarity = CombinedSimilarity(e.vector_score)]]
        ELSE Append(entries, r)

RECURSIVE MergeVector(_, _, _)
\* `for result in vector_results`, from the i-th result on
MergeVector(entries, vector_results, i) ==
    IF i > Len(vector_results) THEN entries
    ELSE MergeVector(PutVector(entries, vector_results[i]), vector_results, i + 1)

RECURSIVE MergeText(_, _, _)
\* `for result in text_results`, from the i-th result on
MergeText(entries, text_results, i) ==
    IF i > Len(text_results) THEN entries
    ELSE MergeText(PutText(entries, text_results[i]), text_results, i + 1)

\* list.sort(key=similarity, reverse=True): stable
SortBySimilarity(seq) ==
    LET Before(a, b) ==
            \/ seq[a].similarity > seq[b].similarity
            \/ seq[a].similarity = seq[b].similarity /\ a < b
    IN  [k \in DOMAIN seq |->
            seq[CHOOSE x \in DOMAIN seq :
                    Cardinality({y \in DOMAIN seq : Before(y, x)}) = k - 1]]

\* a handler that lets the error out
OnHybridErrorRaise(text_results) ==
    [res |-> <<>>, path |-> "error", vec |-> <<>>, txt |-> <<>>, raised |-> TRUE]

\* `except Exception as e: ... return self.search_by_text(query, limit,
\* site_id)`; text_results is what that call returns
OnHybridError(text_results) ==
    [res |-> text_results, path |-> "error", vec |-> <<>>, txt |-> <<>>,
     raised |-> FALSE]

\* hybrid_search(query, embedding, threshold, limit, site_id).  cfault: its
\* own _get_connection raises; vfault, tfault: the faults of the two
\* searches it calls.  vec and txt are the two result sets, path the return
\* statement taken.
HybridSearch(rows, query, embedding, threshold, limit, site_id, cfault, vfault, tfault) ==
    LET vector_results ==
            SearchByEmbedding(rows, embedding, VectorThreshold(threshold),
                              limit * 2, site_id, vfault).res
        text0 == SearchByText(rows, query, limit * 2, site_id, tfault).res
        text_results ==
            [k \in DOMAIN text0 |->
                [similarity |-> TextScore, vector_score |-> 0,
                 text_score |-> TextScore] @@ text0[k]]
        combined == MergeText(MergeVector(<<>>, vector_results, 1),
                              text_results, 1)
        Out(res, path, txt) ==
            [res |-> res, path |-> path, vec |-> vector_results, txt |-> txt,
             raised |-> FALSE]
    IN  IF cfault
        THEN OnHybridError(SearchByText(rows, query, limit, site_id, tfault).res)
        ELSE IF vector_results # <<>> /\ Len(vector_results) >= limit
        THEN Out(Take(vector_results, limit), "vector", <<>>)
        ELSE IF text_results # <<>> /\ vector_results = <<>>
        THEN Out(Take(text_results, limit), "text", text_results)
        ELSE IF text_results = <<>> /\ vector_results = <<>>
        THEN Out(<<>>, "empty", text_results)
        ELSE Out(Take(SortBySimilarity(combined), limit), "merged", text_results)

(***************************************************************************)
(* The pages handed to add_pages: a catalogue of page dictionaries.        *)
(***************************************************************************)
uDoc == <<"x", ".", "c", "o", "/", "d">>                \* x.co/d
uDocChunk == <<"x", ".", "c", "o", "/", "d", "#", "0">> \* x.co/d#0
uOther == <<"x", ".", "c", "c", "/", "e">>              \* x.cc/e
uOrphan == <<"y", ".", "i", "o", "/", "f", "#", "1">>   \* y.io/f#1
uNone == <<>>                                           \* page.get('url', '')

tAb == <<"a", "b">>
tCd == <<"c", "d">>
tEf == <<"e", "f">>
tHostAb == <<"x", ".", "c", "o", " ", "a", "b">>                   \* x.co ab
tHostAbAb == <<"x", ".", "c", "o", " ", "a", "b", " ", "a", "b">>  \* x.co ab ab

Page(url, title, content, summary, embedding, is_chunk, chunk_index) ==
    [url |-> url, title |-> title, content |-> content, summary |-> summary,
     embedding |-> embedding, is_chunk |-> is_chunk, chunk_index |-> chunk_index]

Doc == Page(uDoc, tAb, tHostAb, tEf, <<1, 0>>, FALSE, 0)
DocChunk == Page(uDocChunk, tAb, tHostAb, <<>>, <<1, 0>>, TRUE, 0)
DocAgain == Page(uDoc, tCd, tEf, <<>>, <<>>, FALSE, 0)
Other == Page(uOther, tCd, tHostAbAb, tEf, <<4, 3>>, FALSE, 0)
NoUrl == Page(uNone, tAb, tEf, <<>>, <<3, 4>>, FALSE, 0)
Orphan == Page(uOrphan, tAb, tEf, <<>>, <<1, 0>>, TRUE, 1)
\* a chunk submitted under the url of its page, without a fragment
DocPart == Page(uDoc, tAb, tHostAb, <<>>, <<1, 0>>, TRUE, 1)

Catalogue == {Doc, DocChunk, DocAgain, Other, NoUrl, Orphan, DocPart}

Batches ==
    UNION {[1..n -> Catalogue] : n \in 1..MaxBatch}

(***************************************************************************)
(* Calls of add_pages.                                                     *)
(***************************************************************************)
NoCall == [op |-> "none"]
NoChat == [pc |-> "NotStarted"]

Identity == [i \in 1..MaxRows |-> i]

\* One call add_pages(site_id, batch).  ret keeps what the call did: it
\* failed, it returned no id though nothing failed (every page was a chunk
\* that was skipped), it returned the id of a row that existed before, or
\* it only inserted rows.
AddPages(site_id, batch, fault) ==
    \E r \in {AddPagesOp(pages, site_id, batch, fault)} :
        /\ Len(r.rows) <= MaxRows
        /\ pages' = r.rows
        /\ ret' = [op |-> "add_pages",
                   outcome |->
                       IF fault # "none" THEN "failed"
                       ELSE IF r.ids = <<>> THEN "skipped"
                       ELSE IF Len(r.rows) - Len(pages) < Len(r.ids) THEN "updated"
                       ELSE "inserted"]
        /\ UNCHANGED <<tie, chat>>

InitStore ==
    /\ pages = <<>>
    /\ tie = Identity
    /\ ret = NoCall
    /\ chat = NoChat

NextStore ==
    \E site_id \in SiteIds, batch \in Batches, fault \in Faults :
        AddPages(site_id, batch, fault)

SpecStore == InitStore /\ [][NextStore]_vars

(***************************************************************************)
(* Calls of the three searches, each on a store that add_pages built.      *)
(***************************************************************************)
qAb == tAb                       \* "ab": a word of titles and contents
qEf == tEf                       \* "ef": a word of contents only
qE == <<"e">>                    \* "e": part of a word
qHostAb == <<"X", ".", "c", "o", " ", "a", "b">>   \* "X.co ab": names a host

Queries == {qAb, qEf, qE, qHostAb}
Limits == 1..MaxLimit
QueryEmbeddings == {<<1, 0>>, <<3, 4>>, <<7, 24>>, <<1, 0, 0>>}
Thresholds == {500, 700, 1000}
\* the thresholds of hybrid_search calls: 0.2 relaxes to below the floor
HybridThresholds == {200, 500, 1000}

TieOrders(n) ==
    {f \in [1..n -> 1..n] : \A i, j \in 1..n : f[i] = f[j] => i = j}

\* The stores two add_pages calls build, one for each site.
SeedStores ==
    LET B == Batches \cup {<<>>}
        All == {AddPagesOp(AddPagesOp(<<>>, 1, b1, "none").rows, 2, b2, "none").rows :
                    b1 \in B, b2 \in B}
    IN  {st \in All : Len(st) <= MaxRows}

InitSearch ==
    /\ pages \in SeedStores
    /\ tie \in TieOrders(Len(pages))
    /\ ret = NoCall
    /\ chat = NoChat

\* One add_pages call on a store that earlier calls built; ret keeps the
\* arguments, the store at the call and the returned list.
CallAddPages(site_id, batch, fault) ==
    /\ ret.op = "none"
    /\ \E r \in {AddPagesOp(pages, site_id, batch, fault)} :
        /\ pages' = r.rows
        /\ ret' = [op |-> "add_pages", site_id |-> site_id, batch |-> batch,
                   fault |-> fault, before |-> pages, ids |-> r.ids]
    /\ UNCHANGED <<tie, chat>>

NextIngest ==
    \E site_id \in SiteIds, batch \in Batches, fault \in Faults :
        CallAddPages(site_id, batch, fault)

SpecIngest == InitSearch /\ [][NextIngest]_vars

CallSearchByText(query, limit, site_id, fault) ==
    /\ ret.op = "none"
    /\ \E r \in {SearchByText(pages, query, limit, site_id, fault)} :
        /\ ret' = [op |-> "search_by_text", query |-> query, limit |-> limit,
                   site_id |-> site_id, fault |-> fault, res |-> r.res,
                   stages |-> r.stages, raised |-> r.raised]
        /\ UNCHANGED <<pages, tie, chat>>

NextText ==
    \E query \in Queries, limit \in Limits, site_id \in SiteArgs,
       fault \in {"none", "connect"} :
        CallSearchByText(query, limit, site_id, fault)

SpecText == InitSearch /\ [][NextText]_vars

\* "x.c": names a host, and is part of the words x.co and x.cc
qXc == <<"x", ".", "c">>

\* search_by_text called with the queries above and with one that is
\* domain-shaped and part of a word
NextWaterfall ==
    \E query \in Queries \cup {qXc}, limit \in Limits, site_id \in SiteArgs,
       fault \in {"none", "connect"} :
        CallSearchByText(query, limit, site_id, fault)

SpecWaterfall == InitSearch /\ [][NextWaterfall]_vars

CallSearchByEmbedding(embedding, threshold, limit, site_id, fault) ==
    /\ ret.op = "none"
    /\ \E r \in {SearchByEmbedding(pages, embedding, threshold, limit, site_id, fault)} :
        /\ ret' = [op |-> "search_by_embedding", embedding |-> embedding,
                   threshold |-> threshold, limit |-> limit, site_id |-> site_id,
                   fault |-> fault, res |-> r.res, queried |-> r.queried,
                   raised |-> r.raised]
        /\ UNCHANGED <<pages, tie, chat>>

NextVector ==
    \E embedding \in QueryEmbeddings, threshold \in Thresholds, limit \in Limits,
       site_id \in SiteArgs, fault \in {"none", "connect"} :
        CallSearchByEmbedding(embedding, threshold, limit, site_id, fault)

SpecVector == InitSearch /\ [][NextVector]_vars

CallHybridSearch(query, embedding, threshold, limit, site_id, cfault) ==
    /\ ret.op = "none"
    /\ \E r \in {HybridSearch(pages, query, embedding, threshold, limit, site_id,
                                cfault, "none", "none")} :
        /\ ret' = [op |-> "hybrid_search", query |-> query, embedding |-> embedding,
                   threshold |-> threshold, limit |-> limit, site_id |-> site_id,
                   cfault |-> cfault, res |-> r.res, path |-> r.path,
                   vec |-> r.vec, txt |-> r.txt, raised |-> r.raised]
        /\ UNCHANGED <<pages, tie, chat>>

NextHybrid ==
    \E query \in {qAb, qHostAb}, embedding \in QueryEmbeddings,
       threshold \in HybridThresholds, limit \in Limits, site_id \in {0, 1},
       cfault \in BOOLEAN :
        CallHybridSearch(query, embedding, threshold, limit, site_id, cfault)

SpecHybrid == InitSearch /\ [][NextHybrid]_vars

\* Calls of the two searches with a store that fails at any one of their
\* steps.
NextFaults ==
    \/ \E query \in Queries, site_id \in {0, 1}, fault \in TextFaults :
          CallSearchByText(query, MaxLimit, site_id, fault)
    \/ \E embedding \in {<<1, 0>>, <<1, 0, 0>>}, site_id \in {0, 1},
          fault \in VectorFaults :
          CallSearchByEmbedding(embedding, 500, MaxLimit, site_id, fault)

SpecFaults == InitSearch /\ [][NextFaults]_vars

NextSearch == NextText \/ NextVector \/ NextHybrid

SpecSearch == InitSearch /\ [][NextSearch]_vars

(***************************************************************************)
(* ChatBot: the sites table, the listing methods of SupabaseClient that    *)
(* the strategies use, and the strategies of search_for_context.           *)
(***************************************************************************)
sDocs == <<"d", "o", "c", "s">>     \* docs
sDoc == <<"D", "o", "c">>           \* Doc
sZz == <<"z", "z">>                 \* zz

hYio == <<"y", ".", "i", "o">>      \* y.io
hXco == <<"x", ".", "c", "o">>      \* x.co

\* crawl_sites, in the order get_all_sites yields it (created_at DESC)
Sites == <<[id |-> 2, name |-> sDoc, url |-> hYio],
           [id |-> 1, name |-> sDocs, url |-> hXco]>>

RECURSIVE Flatten(_)
Flatten(seqs) ==
    IF seqs = <<>> THEN <<>> ELSE Head(seqs) \o Flatten(Tail(seqs))

\* all_urls.sort(key=lambda x: x.get("id", 0), reverse=True): stable
SortById(seq) ==
    LET Before(a, b) ==
            \/ seq[a].id > seq[b].id
            \/ seq[a].id = seq[b].id /\ a < b
    IN  [k \in DOMAIN seq |->
            seq[CHOOSE x \in DOMAIN seq :
                    Cardinality({y \in DOMAIN seq : Before(y, x)}) = k - 1]]

\* a sort that leaves the list as it was fetched
SortByContentLengthSkipped(seq) == seq

\* quality_pages.sort(key=lambda x: len(x.get("content", "")), reverse=True)
SortByContentLength(seq) ==
    LET Before(a, b) ==
            \/ Len(seq[a].content) > Len(seq[b].content)
            \/ Len(seq[a].content) = Len(seq[b].content) /\ a < b
    IN  [k \in DOMAIN seq |->
            seq[CHOOSE x \in DOMAIN seq :
                    Cardinality({y \in DOMAIN seq : Before(y, x)}) = k - 1]]

\* reversed(seq)
Reverse(seq) == [k \in DOMAIN seq |-> seq[Len(seq) + 1 - k]]

\* the characters of urls, by code point
CharOrder == <<"#", ".", "/", "0", "1", "c", "d", "e", "f", "i", "o", "x", "y">>

CharCode(c) ==
    IF \E k \in DOMAIN CharOrder : CharOrder[k] = c
    THEN CHOOSE k \in DOMAIN CharOrder : CharOrder[k] = c
    ELSE 0

RECURSIVE StrLess(_, _)
\* a < b for strings compared code point by code point
StrLess(a, b) ==
    IF b = <<>> THEN FALSE
    ELSE IF a = <<>> THEN TRUE
    ELSE IF CharCode(Head(a)) # CharCode(Head(b))
         THEN CharCode(Head(a)) < CharCode(Head(b))
         ELSE StrLess(Tail(a), Tail(b))

\* get_all_sites(): the rows of crawl_sites, [] when the store fails
GetAllSites(fault) == IF fault THEN <<>> ELSE Sites

\* get_pages_by_site_id(site_id, limit, include_chunks=False)
GetPagesBySiteId(rows, site_id, limit, fault) ==
    LET S == {i \in RowIds(rows) : rows[i].site_id = site_id /\ ~rows[i].is_chunk}
        fixed == [i \in S |-> 0]
        urlKey == [i \in S |-> Cardinality({j \in S : StrLess(rows[j].url, rows[i].url)})]
        ids == Take(OrderBy(S, fixed, urlKey), limit)
    IN  IF fault THEN <<>> ELSE [k \in DOMAIN ids |-> rows[ids[k]]]

UrlResult(row) ==
    [id |-> row.id, site_id |-> row.site_id, url |-> row.url,
     title |-> row.title, summary |-> row.summary]

\* get_urls_by_site_name(site_name_pattern, limit)
GetUrlsBySiteName(rows, site_name_pattern, limit, fault) ==
    LET site_ids == {Sites[k].id : k \in {k \in DOMAIN Sites :
                                            ILike(Sites[k].name, site_name_pattern)}}
        S == {i \in RowIds(rows) : rows[i].site_id \in site_ids /\ ~rows[i].is_chunk}
        byId == [i \in S |-> i]
        fixed == [i \in S |-> 0]
        ids == Take(OrderBy(S, byId, fixed), limit)
    IN  IF fault \/ site_ids = {} THEN <<>>
        ELSE [k \in DOMAIN ids |-> UrlResult(rows[ids[k]])]

\* the words that send a query of more than three tokens to the classifier
TriggerWords ==
    {<<"b", "e", "s", "t">>, <<"t", "o", "p">>,
     <<"r", "e", "c", "o", "m", "m", "e", "n", "d">>,
     <<"f", "a", "v", "o", "r", "i", "t", "e">>, <<"g", "o", "o", "d">>,
     <<"g", "r", "e", "a", "t">>, <<"u", "r", "l">>, <<"l", "i", "n", "k">>,
     <<"s", "i", "t", "e">>}

\* the tokens a query must exceed to be analysed
GateTokens == 3

\* a gate that lets every query through to the completion call
GateOpen(query) == TRUE

\* len(query.split()) > 3 and any(word in query.lower() for word in [...])
Gate(query) ==
    /\ Len(Split(query)) > GateTokens
    /\ \E word \in TriggerWords : Contains(LowerStr(query), word)

RECURSIVE LStrip(_)
LStrip(s) == IF s # <<>> /\ Head(s) = " " THEN LStrip(Tail(s)) ELSE s

RECURSIVE RStrip(_)
RStrip(s) ==
    IF s # <<>> /\ s[Len(s)] = " " THEN RStrip(SubSeq(s, 1, Len(s) - 1)) ELSE s

\* str.strip() of the completion, a sequence of blanks and printed runs
Strip(s) == RStrip(LStrip(s))

\* the dispatch `if strategy == "URL_SEARCH": ... elif ... else:`
Dispatch(strategy) ==
    IF strategy = <<"URL_SEARCH">> THEN "URL_SEARCH"
    ELSE IF strategy = <<"BEST_CONTENT">> THEN "BEST_CONTENT"
    ELSE "REGULAR_SEARCH"

\* a handler that lets the error of the completion call out
OnClassifierErrorRaise ==
    [strategy |-> "REGULAR_SEARCH", asked |-> TRUE, raised |-> TRUE]

\* `except Exception as e: ... strategy = "REGULAR_SEARCH"`
OnClassifierError ==
    [strategy |-> "REGULAR_SEARCH", asked |-> TRUE, raised |-> FALSE]

\* The strategy search_for_context dispatches to.  llm is what the
\* completion call does: it fails, or it returns content.
Classifier(query, llm) ==
    IF ~Gate(query)
    THEN [strategy |-> "REGULAR_SEARCH", asked |-> FALSE, raised |-> FALSE]
    ELSE IF llm.fails THEN OnClassifierError
    ELSE [strategy |-> Dispatch(Strip(llm.content)), asked |-> TRUE,
          raised |-> FALSE]

\* WebCrawler.search(query, limit, threshold, site_id): the query is
\* embedded and handed to hybrid_search; embedding <<>> stands for an
\* embedding provider that is unavailable, fault for a store that is.
CrawlerSearch(rows, query, embedding, threshold, limit, site_id, fault) ==
    HybridSearch(rows, query, embedding, threshold, limit, site_id, fault,
                 IF fault THEN "connect" ELSE "none",
                 IF fault THEN "connect" ELSE "none").res

\* a test that looks for the pattern in the name only
SiteMatchesOneWay(site_name, pattern) ==
    Contains(LowerStr(site_name), LowerStr(pattern))

\* `if pattern in site_name or site_name in pattern`, both lower-cased
SiteMatches(site_name, pattern) ==
    \/ Contains(LowerStr(site_name), LowerStr(pattern))
    \/ Contains(LowerStr(pattern), LowerStr(site_name))

\* the ids of the sites that match a pattern of the profile
MatchedSiteIds(search_sites, all_sites) ==
    LET Matches(site) ==
            \E k \in DOMAIN search_sites : SiteMatches(site.name, search_sites[k])
        matched == SelectSeq(all_sites, Matches)
    IN  [k \in DOMAIN matched |-> matched[k].id]

\* get_urls_by_site_name limit of the loop over all sites
UrlsPerSite == 5

\* get_pages_by_site_id limits of _search_for_best_content
PagesPerMatchedSite == 20
PagesPerSite == 10

\* the list _search_for_urls builds before it decides on the fallback
SearchForUrls(rows, search_sites, result_limit, fault) ==
    LET all_sites == GetAllSites(fault)
        byPattern ==
            [k \in DOMAIN search_sites |->
                GetUrlsBySiteName(rows, search_sites[k], result_limit, fault)]
        bySite ==
            [k \in DOMAIN all_sites |->
                GetUrlsBySiteName(rows, all_sites[k].name, UrlsPerSite, fault)]
        all_urls == Flatten(IF search_sites # <<>> THEN byPattern ELSE bySite)
        top == Take(SortById(all_urls), result_limit)
    IN  [k \in DOMAIN top |-> [is_url_result |-> TRUE] @@ top[k]]

\* the list _search_for_best_content builds before it decides on the fallback
SearchForBestContent(rows, search_sites, result_limit, fault) ==
    LET all_sites == GetAllSites(fault)
        site_ids == IF search_sites # <<>>
                    THEN MatchedSiteIds(search_sites, all_sites) ELSE <<>>
        byMatched ==
            [k \in DOMAIN site_ids |->
                GetPagesBySiteId(rows, site_ids[k], PagesPerMatchedSite, fault)]
        bySite ==
            [k \in DOMAIN all_sites |->
                GetPagesBySiteId(rows, all_sites[k].id, PagesPerSite, fault)]
        HasTitleAndSummary(p) == p.title # <<>> /\ p.summary # <<>>
        quality_pages ==
            SelectSeq(Flatten(IF site_ids # <<>> THEN byMatched ELSE bySite),
                      HasTitleAndSummary)
        top_results == Take(SortByContentLength(quality_pages), result_limit)
    IN  [k \in DOMAIN top_results |-> [is_best_result |-> TRUE] @@ top_results[k]]

\* `for i, site_id in enumerate(site_ids)` of _regular_search, the sort and
\* the cut that follow it: all_results
SearchSites(rows, site_ids, query, embedding, threshold, result_limit, fault) ==
    LET perSite ==
            [k \in DOMAIN site_ids |->
                CrawlerSearch(rows, query, embedding, threshold, result_limit,
                              site_ids[k], fault)]
    IN  Take(SortBySimilarity(Flatten(perSite)), result_limit)

\* _regular_search(query): res is the returned list, searched the sites
\* of the per-site loop, unfiltered whether the search over all sites was run
RegularSearch(rows, search_sites, query, embedding, threshold, result_limit, fault) ==
    LET site_ids == IF search_sites # <<>>
                    THEN MatchedSiteIds(search_sites, GetAllSites(fault)) ELSE <<>>
        all_results == SearchSites(rows, site_ids, query, embedding, threshold,
                                   result_limit, fault)
    IN  IF site_ids # <<>> /\ all_results # <<>>
        THEN [res |-> all_results, searched |-> site_ids, unfiltered |-> FALSE]
        ELSE [res |-> CrawlerSearch(rows, query, embedding, threshold,
                                    result_limit, 0, fault),
              searched |-> site_ids, unfiltered |-> TRUE]

\* a strategy that hands over to _regular_search whatever it found
FallsBackAlways(results) == TRUE

\* `if all_urls: ... else: return self._regular_search(query)`, and the
\* same test on top_results
FallsBack(results) == results = <<>>

(***************************************************************************)
(* direct_keyword_search                                                   *)
(***************************************************************************)
\* [a-zA-Z]
Letters == Alnum \ {"0", "1"}

RECURSIVE DomainNameAt(_, _)
\* ([a-zA-Z0-9][-a-zA-Z0-9]*\.)+[a-zA-Z]{2,} matches from p on: a label and
\* its dot, then two letters or the pattern again
DomainNameAt(s, p) ==
    /\ p <= Len(s) /\ s[p] \in Alnum
    /\ LET e == RunEnd(s, p)
       IN  /\ e <= Len(s) /\ s[e] = "."
           /\ \/ /\ e + 2 <= Len(s)
                 /\ s[e + 1] \in Letters /\ s[e + 2] \in Letters
              \/ DomainNameAt(s, e + 1)

\* bool(re.search(..., clean_query))
IsDomainName(s) == \E p \in 1..Len(s) : DomainNameAt(s, p)

\* crawl_sites.name of a site id
SiteName(site_id) ==
    Sites[CHOOSE k \in DOMAIN Sites : Sites[k].id = site_id].name

KeywordResult(row, similarity, match_type) ==
    [id |-> row.id, site_id |-> row.site_id, url |-> row.url, title |-> row.title,
     content |-> row.content, site_name |-> SiteName(row.site_id),
     similarity |-> similarity, match_type |-> match_type]

\* direct_keyword_search(query, limit, site_patterns); fault: the store
\* fails.  The statement of the keyword branch has its placeholders in the
\* order title, site filter, content, site filter; params lists the
\* arguments as the code builds the list, and execute binds by position.
DirectKeywordSearch(rows, query, limit, site_patterns, fault) ==
    LET clean_query == LowerStr(LStrip(RStrip(query)))
        n == Len(site_patterns)
        params == <<clean_query, clean_query>> \o site_patterns \o site_patterns
        title_arg == params[1]
        title_sites == SubSeq(params, 2, n + 1)
        content_arg == params[n + 2]
        content_sites == SubSeq(params, n + 3, 2 * n + 2)
        \* {site_filter}: AND (s.name ILIKE %s OR ...), empty without patterns
        InSites(i, args) ==
            n = 0 \/ \E j \in DOMAIN args : ILike(SiteName(rows[i].site_id), args[j])
        titleSet == {i \in RowIds(rows) :
                        /\ Contains(LowerStr(rows[i].title), title_arg)
                        /\ InSites(i, title_sites)}
        contentSet == {i \in RowIds(rows) :
                          /\ Contains(LowerStr(rows[i].content), content_arg)
                          /\ InSites(i, content_sites)}
        page_matches == {<<1000, i>> : i \in titleSet} \cup {<<900, i>> : i \in contentSet}
        \* ORDER BY similarity DESC, id DESC
        Before(a, b) == a[1] > b[1] \/ (a[1] = b[1] /\ a[2] > b[2])
        ordered == [k \in 1..Cardinality(page_matches) |->
                       CHOOSE x \in page_matches :
                           Cardinality({y \in page_matches : Before(y, x)}) = k - 1]
        keyword_rows == Take(ordered, limit)
        \* the sites whose name or url contains the query
        site_ids == {Sites[k].id : k \in {k \in DOMAIN Sites :
                                            \/ ILike(Sites[k].name, clean_query)
                                            \/ ILike(Sites[k].url, clean_query)}}
        siteSet == {i \in RowIds(rows) : rows[i].site_id \in site_ids}
        byId == [i \in siteSet |-> i]
        fixed == [i \in siteSet |-> 0]
        site_rows == Take(OrderBy(siteSet, byId, fixed), limit)
    IN  IF fault THEN [res |-> <<>>, branch |-> "error"]
        ELSE IF IsDomainName(clean_query) /\ site_ids # {}
        THEN [res |-> [k \in DOMAIN site_rows |->
                          KeywordResult(rows[site_rows[k]], 1000, "site_match")],
              branch |-> "site"]
        ELSE [res |-> [k \in DOMAIN keyword_rows |->
                          KeywordResult(rows[keyword_rows[k][2]], keyword_rows[k][1],
                                        IF keyword_rows[k][1] = 1000
                                        THEN "title_exact" ELSE "content_exact")],
              branch |-> "keyword"]

qHost == <<"X", ".", "c", "o">>     \* "X.co": names the host of a site
sO == <<"o">>                       \* o: part of both site names

KeywordQueries == {qAb, qEf, qHost, qHostAb}
SitePatterns == {<<>>, <<sDocs>>, <<sZz>>, <<sO>>, <<sZz, sDoc>>}

CallDirectKeywordSearch(query, limit, site_patterns, fault) ==
    /\ ret.op = "none"
    /\ \E r \in {DirectKeywordSearch(pages, query, limit, site_patterns, fault)} :
        /\ ret' = [op |-> "direct_keyword_search", query |-> query,
                   limit |-> limit, site_patterns |-> site_patterns,
                   fault |-> fault, res |-> r.res, branch |-> r.branch]
        /\ UNCHANGED <<pages, tie, chat>>

NextKeyword ==
    \E query \in KeywordQueries, limit \in Limits, site_patterns \in SitePatterns,
       fault \in BOOLEAN :
        CallDirectKeywordSearch(query, limit, site_patterns, fault)

SpecKeyword == InitSearch /\ [][NextKeyword]_vars

(***************************************************************************)
(* One search_for_context call of a ChatBot built from a profile.          *)
(***************************************************************************)
MaxChatRows == 2

qLinks == <<"a", "b", " ", "e", "f", " ", "c", "d", " ", "U", "r", "l">>  \* ab ef cd Url
qWords == <<"a", "b", " ", "e", "f", " ", "c", "d", " ", "a", "b">>       \* ab ef cd ab

qFewLinks == <<"a", "b", " ", "e", "f", " ", "U", "r", "l">>               \* ab ef Url

ChatQueries == {qAb, qLinks, qWords, qFewLinks}

\* no completion call was made
NotAsked == [fails |-> FALSE, content |-> <<>>]

Completions ==
    {<<"REGULAR_SEARCH">>, <<" ", "URL_SEARCH", " ">>, <<"BEST_CONTENT">>,
     <<"url_search">>}

LlmOutcomes ==
    {[fails |-> TRUE, content |-> <<>>]}
        \cup {[fails |-> FALSE, content |-> c] : c \in Completions}

\* the site filters of the profiles; "s" is part of the name docs only
Profiles == {<<>>, <<sDoc>>, <<sDocs>>, <<sZz>>, << <<"s">> >>}

ChatEmbeddings == {<<1, 0>>, <<3, 4>>, <<>>}

ChatStores == {st \in SeedStores : Len(st) <= MaxChatRows}

InitChat ==
    /\ pages \in ChatStores
    /\ tie \in TieOrders(Len(pages))
    /\ ret = NoCall
    /\ \E search_sites \in Profiles, result_limit \in Limits :
          chat = [pc |-> "NotStarted", search_sites |-> search_sites,
                  result_limit |-> result_limit, similarity_threshold |-> 500,
                  query |-> <<>>, strategy |-> "none", started |-> <<>>,
                  primary |-> <<>>, res |-> <<>>, embedding |-> <<>>,
                  fault |-> FALSE, searched |-> <<>>, unfiltered |-> FALSE,
                  asked |-> FALSE, llm |-> NotAsked]

\* search_for_context up to the dispatch: the strategy is chosen
Classify(query, llm) ==
    /\ chat.pc = "NotStarted"
    /\ \E c \in {Classifier(query, llm)} :
          chat' = [chat EXCEPT
                      !.pc = IF c.raised THEN "Raised" ELSE "Searching",
                      !.query = query,
                      !.strategy = IF c.raised THEN "none" ELSE c.strategy,
                      !.started = IF c.raised THEN <<>> ELSE <<c.strategy>>,
                      !.asked = c.asked,
                      !.llm = IF c.asked THEN llm ELSE NotAsked]
    /\ UNCHANGED <<pages, tie, ret>>

\* the body of a primary strategy other than REGULAR, up to its return
\* statement or its call of _regular_search
Primary(results, fault) ==
    chat' = [chat EXCEPT
                !.pc = IF FallsBack(results) THEN "FellBack" ELSE "Found",
                !.primary = results,
                !.res = IF FallsBack(results) THEN <<>> ELSE results,
                !.fault = fault]

RunUrlSearch(fault) ==
    /\ chat.pc = "Searching" /\ chat.strategy = "URL_SEARCH"
    /\ Primary(SearchForUrls(pages, chat.search_sites, chat.result_limit, fault),
               fault)
    /\ UNCHANGED <<pages, tie, ret>>

RunBestContent(fault) ==
    /\ chat.pc = "Searching" /\ chat.strategy = "BEST_CONTENT"
    /\ Primary(SearchForBestContent(pages, chat.search_sites, chat.result_limit, fault),
               fault)
    /\ UNCHANGED <<pages, tie, ret>>

\* `return self._regular_search(query)` of a strategy that found nothing
StartRegular ==
    /\ chat.pc = "FellBack"
    /\ chat' = [chat EXCEPT !.pc = "Searching", !.strategy = "REGULAR_SEARCH",
                            !.started = Append(@, "REGULAR_SEARCH")]
    /\ UNCHANGED <<pages, tie, ret>>

RunRegular(embedding, fault) ==
    /\ chat.pc = "Searching" /\ chat.strategy = "REGULAR_SEARCH"
    /\ \E r \in {RegularSearch(pages, chat.search_sites, chat.query, embedding,
                               chat.similarity_threshold, chat.result_limit, fault)} :
          chat' = [chat EXCEPT !.pc = IF r.res # <<>> THEN "Found" ELSE "Empty",
                               !.res = r.res, !.embedding = embedding,
                               !.fault = fault, !.searched = r.searched,
                               !.unfiltered = r.unfiltered]
    /\ UNCHANGED <<pages, tie, ret>>

\* up: the store answers during the step; the strategies take its negation
\* as their fault
NextChat ==
    \/ \E query \in ChatQueries, llm \in LlmOutcomes : Classify(query, llm)
    \/ \E up \in BOOLEAN : RunUrlSearch(~up)
    \/ \E up \in BOOLEAN : RunBestContent(~up)
    \/ StartRegular
    \/ \E up \in BOOLEAN, embedding \in ChatEmbeddings : RunRegular(embedding, ~up)

\* one call runs to completion: no step that is enabled is left out forever
SpecChat == InitChat /\ [][NextChat]_vars /\ WF_vars(NextChat)

\* hybrid_search called with the limit and the threshold of the profile, as
\* the strategies have it called
CallHybridFromProfile ==
    /\ chat.pc = "NotStarted"
    /\ \E query \in {qAb, qHostAb}, embedding \in {<<1, 0>>, <<3, 4>>},
          site_id \in {0, 1}, cfault \in BOOLEAN :
          CallHybridSearch(query, embedding, chat.similarity_threshold,
                           chat.result_limit, site_id, cfault)

\* One call on a store: of search_for_context, or of hybrid_search alone.
NextRetrieve ==
    \/ ret.op = "none" /\ NextChat
    \/ CallHybridFromProfile

SpecRetrieve == InitChat /\ [][NextRetrieve]_vars

(***************************************************************************)
(* One search_for_context call on a store whose first site holds more      *)
(* pages than _search_for_best_content fetches from a site.                *)
(***************************************************************************)
\* the k-th url of the site, in the order of ORDER BY url
BigSiteUrl(k) ==
    <<CharOrder[4 + ((k - 1) \div 10)], CharOrder[4 + ((k - 1) % 10)]>>

\* the k-th page of the site: the page `long` has the longest content, the
\* page `bare` has no summary
BigSitePage(k, long, bare) ==
    Page(BigSiteUrl(k), tCd, IF k = long THEN tHostAbAb ELSE tEf,
         IF k = bare THEN <<>> ELSE tEf, <<>>, FALSE, 0)

\* Stores of one add_pages call for site 1, of PagesPerSite + 1 or
\* PagesPerMatchedSite + 1 pages, and of at most one page for site 2.
BigStores ==
    {AddPagesOp(AddPagesOp(<<>>, 1, [k \in 1..n |-> BigSitePage(k, long, bare)],
                           "none").rows,
                2, b2, "none").rows :
        n \in {PagesPerSite + 1},
        long \in {2, PagesPerSite + 1}, bare \in {1, 2, PagesPerSite + 1},
        b2 \in {<<>>, <<Other>>}}

InitBigSite ==
    /\ pages \in BigStores
    /\ tie = [i \in 1..Len(pages) |-> i]
    /\ ret = NoCall
    /\ \E search_sites \in Profiles, result_limit \in Limits :
          chat = [pc |-> "NotStarted", search_sites |-> search_sites,
                  result_limit |-> result_limit, similarity_threshold |-> 500,
                  query |-> <<>>, strategy |-> "none", started |-> <<>>,
                  primary |-> <<>>, res |-> <<>>, embedding |-> <<>>,
                  fault |-> FALSE, searched |-> <<>>, unfiltered |-> FALSE,
                  asked |-> FALSE, llm |-> NotAsked]

SpecBigSite == InitBigSite /\ [][NextChat]_vars

(***************************************************************************)
(* Properties of the store (SpecStore).                                    *)
(***************************************************************************)
ParentPages == {p \in Catalogue : ~p.is_chunk}
ChunkPages == {p \in Catalogue : p.is_chunk}

\* C5: after any sequence of add_pages calls the store holds at most one
\* non-chunk row per url and at most one chunk row per (url, chunk_index);
\* adding a non-chunk page whose url is stored keeps the number of rows and
\* leaves that row with the title, content and summary of the call.
C5_UpsertIdempotent ==
    /\ \A i, j \in RowIds(pages) :
          /\ (~pages[i].is_chunk /\ ~pages[j].is_chunk
                 /\ pages[i].url = pages[j].url) => i = j
          /\ (pages[i].is_chunk /\ pages[j].is_chunk
                 /\ pages[i].url = pages[j].url
                 /\ pages[i].chunk_index = pages[j].chunk_index) => i = j
    /\ \A site_id \in SiteIds, p \in ParentPages :
          LET e == ExistingParent(pages, p.url)
              r == AddPagesOp(pages, site_id, <<p>>, "none")
          IN  e # 0 =>
                /\ Len(r.rows) = Len(pages)
                /\ r.ids = <<e>>
                /\ r.rows[e].title = p.title
                /\ r.rows[e].content = p.content
                /\ r.rows[e].summary = p.summary

\* a call has updated the stored page x.co/d to the second version of it
C5_Witness ==
    /\ ret.op = "add_pages" /\ ret.outcome = "updated"
    /\ Len(pages) = 1
    /\ pages[1].url = uDoc /\ pages[1].title = DocAgain.title
    /\ pages[1].content = DocAgain.content

\* C6: every stored chunk row has a parent_id that references a stored
\* non-chunk row whose url is the chunk's url without its '#...' fragment;
\* a submitted chunk for which no such parent is found is skipped: nothing
\* is stored and no id is returned for it.
C6_ChunkHasParent ==
    /\ \A i \in RowIds(pages) :
          pages[i].is_chunk =>
             /\ pages[i].parent_id \in RowIds(pages)
             /\ ~pages[pages[i].parent_id].is_chunk
             /\ pages[pages[i].parent_id].url = StripFragment(pages[i].url)
    /\ \A site_id \in SiteIds, c \in ChunkPages :
          LET r == AddPagesOp(pages, site_id, <<c>>, "none")
          IN  ExistingParent(pages, StripFragment(c.url)) = 0 =>
                 r.rows = pages /\ r.ids = <<>>

\* the store holds a chunk, and the last call submitted only chunks that
\* were skipped
C6_Witness ==
    /\ \E i \in RowIds(pages) : pages[i].is_chunk
    /\ ret.op = "add_pages" /\ ret.outcome = "skipped"

(***************************************************************************)
(* Properties of search_by_text (SpecText).                                *)
(***************************************************************************)
RECURSIVE WholeFrom(_, _)
WholeFrom(s, i) ==
    IF i > Len(s) THEN <<>>
    ELSE LET m == Labels(s, i, <<>>)
         IN  IF m.ok THEN <<m.whole>> \o WholeFrom(s, m.end + 1)
             ELSE WholeFrom(s, i + 1)

\* the domain-shaped tokens of a query, lower-cased: the whole matches of
\* the pattern
DomainTokens(query) == WholeFrom(LowerStr(query), 1)

\* the rows whose title contains the query, within the site filter
TitleMatches(query, site_id) ==
    {i \in RowIds(pages) :
        /\ ILike(pages[i].title, query)
        /\ IsNone(site_id) \/ pages[i].site_id = site_id}

Ids(res) == {res[k].id : k \in DOMAIN res}

Min(a, b) == IF a <= b THEN a ELSE b

\* C3: for a query without a domain-shaped substring, when the title
\* statement yields a row, search_by_text returns title matches (all of
\* them up to limit, each with rank 1.0) and executes neither the full-text
\* nor the relaxed statement.
C3_TitleShortCircuit ==
    (/\ ret.op = "search_by_text"
     /\ ret.fault = "none"
     /\ ~IsMalformed(ret.site_id)
     /\ DomainTokens(ret.query) = <<>>
     /\ TitleMatches(ret.query, ret.site_id) # {})
    => /\ ret.stages = <<"title">>
       /\ Ids(ret.res) \subseteq TitleMatches(ret.query, ret.site_id)
       /\ Len(ret.res) = Min(ret.limit, Cardinality(TitleMatches(ret.query, ret.site_id)))
       /\ \A k \in DOMAIN ret.res : ret.res[k].rank = 1000

\* a search for "ab" stopped at the title stage although the full-text
\* statement would have matched a row that has no title match
C3_Witness ==
    /\ ret.op = "search_by_text" /\ ret.query = qAb /\ ret.fault = "none"
    /\ ret.stages = <<"title">> /\ ret.res # <<>>
    /\ \E i \in RowIds(pages) :
          FtsMatch(pages[i], qAb) /\ i \notin TitleMatches(qAb, 0)

Relevance(r) == IF ret.op = "search_by_text" THEN r.rank ELSE r.similarity

\* in res no chunk stands before its own parent with the same relevance
ParentFirst(res) ==
    \A a, b \in DOMAIN res :
        ~(/\ a < b
          /\ res[a].is_chunk
          /\ res[a].parent_id = res[b].id
          /\ Relevance(res[a]) = Relevance(res[b]))

\* C2 as claimed: in every list returned by search_by_text,
\* search_by_embedding or hybrid_search a parent page stands before its
\* chunk of equal relevance.
C2_ParentFirstEverywhere ==
    ret.op \in {"search_by_text", "search_by_embedding", "hybrid_search"}
        => ParentFirst(ret.res)

\* C2 as amended: in every list returned by search_by_text a parent page
\* stands before its chunk of equal rank.
C2_ParentFirstInText ==
    ret.op = "search_by_text" => ParentFirst(ret.res)

\* search_by_text returned a parent and its chunk with equal rank, on a
\* store that yields the chunk first among tied rows
C2_Witness ==
    /\ ret.op = "search_by_text"
    /\ \E a, b \in DOMAIN ret.res :
          /\ ret.res[b].is_chunk
          /\ ret.res[b].parent_id = ret.res[a].id
          /\ ret.res[a].rank = ret.res[b].rank
          /\ TiePos(ret.res[b].id) < TiePos(ret.res[a].id)

(***************************************************************************)
(* Properties of search_by_embedding (SpecVector).                         *)
(***************************************************************************)
\* C4: for the store, embedding, limit and site filter of a call, the call
\* with any threshold at least as high returns a subset of what this call
\* returned.
C4_ThresholdMonotone ==
    ret.op = "search_by_embedding" =>
        \A t2 \in Thresholds :
            t2 >= ret.threshold =>
                Ids(SearchByEmbedding(pages, ret.embedding, t2, ret.limit,
                                      ret.site_id, ret.fault).res)
                    \subseteq Ids(ret.res)

\* a call returned rows of which a higher threshold drops some
C4_Witness ==
    /\ ret.op = "search_by_embedding" /\ ret.res # <<>>
    /\ \E t2 \in Thresholds :
          /\ t2 > ret.threshold
          /\ Ids(SearchByEmbedding(pages, ret.embedding, t2, ret.limit,
                                   ret.site_id, ret.fault).res) # Ids(ret.res)

\* the query embedding and a stored vector the call compares it with have
\* different dimensions
DimensionMismatch ==
    \E i \in RowIds(pages) :
        /\ pages[i].embedding # <<>>
        /\ IsNone(ret.site_id) \/ IsMalformed(ret.site_id)
              \/ pages[i].site_id = ret.site_id
        /\ Len(pages[i].embedding) # Len(ret.embedding)

FloorRaised(url) ==
    \E k \in DOMAIN ret.res :
        /\ ret.res[k].url = url
        /\ ret.res[k].similarity >= TextScore
        /\ ret.res[k].similarity = Max(ret.res[k].vector_score, TextScore)
        /\ \E v \in DOMAIN ret.vec : /\ ret.vec[v].url = url
                                     /\ ret.vec[v].similarity = ret.res[k].vector_score

InBoth(url) ==
    /\ \E v \in DOMAIN ret.vec : ret.vec[v].url = url
    /\ \E t \in DOMAIN ret.txt : ret.txt[t].url = url

Urls == {p.url : p \in Catalogue}

\* C1 as claimed: every url that occurs in both the vector and the lexical
\* result set of a hybrid_search call is returned with similarity
\* max(vector_score, 0.65).
C1_FloorForEveryUrl ==
    ret.op = "hybrid_search" => \A url \in Urls : InBoth(url) => FloorRaised(url)

\* C1 as amended: every non-empty url that occurs in both result sets is
\* returned with similarity max(vector_score, 0.65).
C1_FloorForNonEmptyUrl ==
    ret.op = "hybrid_search" =>
        \A url \in Urls : (url # <<>> /\ InBoth(url)) => FloorRaised(url)

\* a merged result whose vector score was below 0.65 and was raised to it
C1_Witness ==
    /\ ret.op = "hybrid_search" /\ ret.path = "merged"
    /\ \E k \in DOMAIN ret.res :
          /\ InBoth(ret.res[k].url)
          /\ ret.res[k].vector_score < TextScore
          /\ ret.res[k].similarity = TextScore

(***************************************************************************)
(* Properties of search_for_context (SpecChat).                            *)
(***************************************************************************)
Terminal == chat.pc \in {"Found", "Empty"}

\* C7: against a store with zero pages no step of the call raises or finds
\* anything, whatever the query, the profile's site filter and limit, the
\* classifier's answer and the strategy: the call can only end Empty, with
\* the empty list.
C7_EmptyStoreEmptyList ==
    pages = <<>> =>
        /\ chat.pc \notin {"Found", "Raised"}
        /\ chat.res = <<>>
        /\ chat.primary = <<>>

\* on an empty store a call that started with URL_SEARCH has ended Empty
\* after the regular search
C7_Witness ==
    /\ pages = <<>>
    /\ chat.pc = "Empty"
    /\ chat.started = <<"URL_SEARCH", "REGULAR_SEARCH">>
    /\ chat.res = <<>>

\* the strategies started so far form a legal chain: a primary strategy,
\* then at most REGULAR, once, and only after a primary strategy other
\* than REGULAR that produced the empty list
ChainOk ==
    /\ chat.pc \in {"NotStarted", "Searching", "Found", "FellBack", "Empty"}
    /\ chat.started \in
          {<<>>, <<"REGULAR_SEARCH">>, <<"URL_SEARCH">>, <<"BEST_CONTENT">>,
           <<"URL_SEARCH", "REGULAR_SEARCH">>, <<"BEST_CONTENT", "REGULAR_SEARCH">>}
    /\ (chat.pc = "FellBack" \/ Len(chat.started) = 2) => chat.primary = <<>>
    /\ chat.pc = "FellBack" => chat.started \in {<<"URL_SEARCH">>, <<"BEST_CONTENT">>}
    /\ chat.pc = "Found" => chat.res # <<>>
    /\ chat.pc = "Empty" =>
          chat.res = <<>> /\ chat.started[Len(chat.started)] = "REGULAR_SEARCH"

\* C10: every call ends in Found (a non-empty list) or Empty; URL_SEARCH
\* and BEST_CONTENT hand over only to REGULAR and at most once, REGULAR is
\* not started after a primary strategy that produced a non-empty list,
\* and REGULAR hands over to nothing.
C10_FallbackChain == [](ChainOk) /\ <>(Terminal)

\* a call that fell back from BEST_CONTENT and found results in REGULAR
C10_Witness ==
    /\ chat.pc = "Found"
    /\ chat.started = <<"BEST_CONTENT", "REGULAR_SEARCH">>
    /\ chat.res # <<>>


\* the site ids _regular_search matched for the profile of the call
MatchedOfCall == MatchedSiteIds(chat.search_sites, GetAllSites(chat.fault))

\* C11 as claimed: the list a site-filtered REGULAR search returns is
\* ordered by similarity descending, ties by page id descending, and it is
\* the list the same search returns when the matched sites are searched in
\* the reverse order.
C11_TieById ==
    (/\ chat.pc = "Found"
     /\ chat.strategy = "REGULAR_SEARCH"
     /\ ~chat.unfiltered)
    => /\ \A a, b \in DOMAIN chat.res :
             a < b =>
                \/ chat.res[a].similarity > chat.res[b].similarity
                \/ /\ chat.res[a].similarity = chat.res[b].similarity
                   /\ chat.res[a].id > chat.res[b].id
       /\ chat.res =
             SearchSites(pages, Reverse(MatchedOfCall), chat.query, chat.embedding,
                         chat.similarity_threshold, chat.result_limit, chat.fault)


(***************************************************************************)
(* More properties of hybrid_search (SpecHybrid).                          *)
(***************************************************************************)
\* C12 as claimed: no two entries of a list hybrid_search returns have the
\* same url, whichever return statement produced the list.
C12_NoDuplicateUrl ==
    ret.op = "hybrid_search" =>
        \A a, b \in DOMAIN ret.res : ret.res[a].url = ret.res[b].url => a = b


\* the rows search_by_embedding compares the query embedding of the call with
InScope ==
    {i \in RowIds(pages) :
        /\ pages[i].embedding # <<>>
        /\ IsNone(ret.site_id) \/ pages[i].site_id = ret.site_id}

\* C13: hybrid_search runs the vector search with the threshold
\* max(0.7 * threshold, 0.2) and twice the limit; that threshold is never
\* below 0.2 and is 0.35 for 0.5; with threshold 0.5 and every stored
\* similarity below 0.35 the vector part is empty.
C13_RelaxedThreshold ==
    (ret.op = "hybrid_search" /\ ~ret.cfault) =>
        LET relaxed == (7 * ret.threshold) \div 10
            vector_threshold == IF relaxed >= 200 THEN relaxed ELSE 200
        IN  /\ VectorThreshold(ret.threshold) = vector_threshold
            /\ vector_threshold >= 200
            /\ ret.threshold = 500 => vector_threshold = 350
            /\ ret.vec = SearchByEmbedding(pages, ret.embedding, vector_threshold,
                                           2 * ret.limit, ret.site_id, "none").res
            /\ (/\ ret.threshold = 500
                /\ Len(ret.embedding) = 2
                /\ \A i \in InScope :
                       Similarity(pages[i].embedding, ret.embedding) < 350)
               => ret.vec = <<>>

\* a call with threshold 0.5 on rows whose similarities are all 0.28:
\* above the floor 0.2, below 0.35, and the vector part is empty
C13_Witness ==
    /\ ret.op = "hybrid_search" /\ ~ret.cfault
    /\ ret.threshold = 500 /\ Len(ret.embedding) = 2
    /\ InScope # {}
    /\ \A i \in InScope :
          /\ Len(pages[i].embedding) = 2
          /\ Similarity(pages[i].embedding, ret.embedding) = 280
    /\ ret.vec = <<>>


\* C14: hybrid_search raises nothing; when its own processing fails it
\* returns what search_by_text(query, limit, site_id) returns, and when the
\* vector search and the lexical search both yield nothing it returns the
\* empty list.
C14_NeverPropagates ==
    ret.op = "hybrid_search" =>
        /\ ~ret.raised
        /\ ret.cfault =>
              /\ ret.path = "error"
              /\ ret.res = SearchByText(pages, ret.query, ret.limit, ret.site_id,
                                        "none").res
        /\ (/\ ~ret.cfault
            /\ ret.vec = <<>>
            /\ SearchByText(pages, ret.query, 2 * ret.limit, ret.site_id,
                            "none").res = <<>>)
           => (ret.res = <<>> /\ ret.path = "empty")

\* a call whose own processing failed and that returned the rows of the
\* plain lexical search
C14_Witness ==
    /\ ret.op = "hybrid_search" /\ ret.cfault
    /\ ret.path = "error" /\ ret.res # <<>>


(***************************************************************************)
(* More properties of search_by_embedding and search_by_text.              *)
(***************************************************************************)
\* C15 as claimed: search_by_embedding returns at most `limit` results.
C15_AtMostLimit ==
    ret.op = "search_by_embedding" => Len(ret.res) <= ret.limit


\* the store failure of the search_by_text call happened: the connection
\* failed, or the statement that fails is one the call comes to execute
TextFaultHit ==
    \/ ret.fault = "connect"
    \/ \E k \in DOMAIN SearchByText(pages, ret.query, ret.limit, ret.site_id,
                                     "none").stages :
          SearchByText(pages, ret.query, ret.limit, ret.site_id,
                       "none").stages[k] = ret.fault

\* C16: neither search raises.  search_by_text returns the empty list when
\* the store fails at any step it reaches; search_by_embedding returns the
\* empty list when the store fails at any step, and returns it without
\* sending the similarity statement when the connection, the count or the
\* configuration check fails, when no row in scope has an embedding, or
\* when the vector capability is missing.
C16_SearchesDegrade ==
    /\ ret.op = "search_by_text" =>
          /\ ~ret.raised
          /\ TextFaultHit => ret.res = <<>>
    /\ ret.op = "search_by_embedding" =>
          /\ ~ret.raised
          /\ ret.fault # "none" => ret.res = <<>>
          /\ (ret.fault \in {"connect", "count", "config", "noext", "coltype"}
                 \/ InScope = {})
             => (ret.res = <<>> /\ ~ret.queried)

\* a search_by_text call whose relaxed statement, the last one, failed
\* after the title and the full-text statement had found nothing
C16_Witness ==
    /\ ret.op = "search_by_text" /\ ret.fault = "ilike"
    /\ ret.stages = <<"title", "fts">>
    /\ SearchByText(pages, ret.query, ret.limit, ret.site_id, "none").res # <<>>
    /\ ret.res = <<>>


\* C17 as claimed: with a site identifier that int() rejects,
\* search_by_text (with or without a domain in the query) and
\* search_by_embedding return the empty list.
C17_MalformedDegrades ==
    (/\ ret.op \in {"search_by_text", "search_by_embedding"}
     /\ IsMalformed(ret.site_id))
    => ret.res = <<>>


(***************************************************************************)
(* More properties of search_for_context (SpecChat).                       *)
(***************************************************************************)
\* the query of the call has more than 3 tokens and contains a trigger word
PassesGate ==
    /\ Len(Split(chat.query)) > 3
    /\ \E word \in TriggerWords : Contains(LowerStr(chat.query), word)

\* the completion call of the call was made, succeeded, and its trimmed
\* output is exactly the label
Answered(label) ==
    /\ chat.asked
    /\ ~chat.llm.fails
    /\ Strip(chat.llm.content) = <<label>>

\* C18: once the strategy is chosen, it is URL_SEARCH (BEST_CONTENT) exactly
\* when the query passes the gate and the completion call succeeded with
\* that label as its trimmed output, and REGULAR in every other case; no
\* error leaves the classification, and the completion call is made exactly
\* when the query passes the gate.
C18_ClassifierGate ==
    chat.pc # "NotStarted" =>
        /\ chat.pc # "Raised"
        /\ chat.started # <<>>
        /\ chat.started[1] \in {"URL_SEARCH", "BEST_CONTENT", "REGULAR_SEARCH"}
        /\ \A label \in {"URL_SEARCH", "BEST_CONTENT"} :
              chat.started[1] = label <=> (PassesGate /\ Answered(label))
        /\ chat.asked <=> PassesGate

\* URL_SEARCH chosen from a completion that had blanks around the label,
\* after a query of four tokens with the trigger word in capitals
C18_Witness ==
    /\ chat.pc = "Searching"
    /\ chat.started = <<"URL_SEARCH">>
    /\ chat.query = qLinks
    /\ chat.llm.content = <<" ", "URL_SEARCH", " ">>


(***************************************************************************)
(* Properties of the lengths of the returned lists (SpecRetrieve).         *)
(***************************************************************************)
\* C19: a list hybrid_search returns has at most `limit` entries, whichever
\* return statement produced it, and so has the list of every strategy of
\* search_for_context that cuts its own list: the list URL_SEARCH or
\* BEST_CONTENT built, and the list of the site-filtered REGULAR search.
C19_AtMostLimit ==
    /\ ret.op = "hybrid_search" => Len(ret.res) <= ret.limit
    /\ Len(chat.primary) <= chat.result_limit
    /\ ~chat.unfiltered => Len(chat.res) <= chat.result_limit

\* a site-filtered REGULAR search with limit 1 returned one result where
\* the matched sites hold two
C19_Witness ==
    /\ chat.pc = "Found" /\ chat.strategy = "REGULAR_SEARCH" /\ ~chat.unfiltered
    /\ chat.result_limit = 1 /\ Len(chat.res) = 1
    /\ Len(SearchSites(pages, MatchedOfCall, chat.query, chat.embedding,
                       chat.similarity_threshold, 2, chat.fault)) = 2


(***************************************************************************)
(* Properties of direct_keyword_search (SpecKeyword).                      *)
(***************************************************************************)
\* the title or the content of the result contains the query, whatever the
\* case of the letters
HasQuery(result) ==
    \/ ILike(result.title, LStrip(RStrip(ret.query)))
    \/ ILike(result.content, LStrip(RStrip(ret.query)))

\* the name of the result's site matches one of the patterns of the call
InPatterns(result) ==
    \E j \in DOMAIN ret.site_patterns :
        ILike(SiteName(result.site_id), ret.site_patterns[j])

\* C20 as claimed: with a non-empty list of site patterns,
\* direct_keyword_search returns only pages whose title or content contains
\* the query and whose site name matches one of the patterns.
C20_KeywordAndSite ==
    (ret.op = "direct_keyword_search" /\ ret.site_patterns # <<>>) =>
        \A k \in DOMAIN ret.res : HasQuery(ret.res[k]) /\ InPatterns(ret.res[k])


(***************************************************************************)
(* Properties of BEST_CONTENT (SpecBigSite).                               *)
(***************************************************************************)
\* the call ran _search_for_best_content to its return statement or to its
\* call of _regular_search
BestContentRan ==
    chat.strategy = "BEST_CONTENT" /\ chat.pc \in {"Found", "FellBack"}

\* every site is a candidate: the filter is empty or matches no site
EverySite ==
    chat.search_sites = <<>> \/ MatchedSiteIds(chat.search_sites, Sites) = <<>>

\* the sites BEST_CONTENT takes its pages from
BestContentSites ==
    IF EverySite THEN {Sites[k].id : k \in DOMAIN Sites}
    ELSE SeqToSet(MatchedSiteIds(chat.search_sites, Sites))

NonChunkOf(site_id) ==
    {i \in RowIds(pages) : pages[i].site_id = site_id /\ ~pages[i].is_chunk}

\* the first n non-chunk pages of a site in the order of their urls
FirstByUrl(site_id, n) ==
    {i \in NonChunkOf(site_id) :
        Cardinality({j \in NonChunkOf(site_id) :
                        StrLess(pages[j].url, pages[i].url)}) < n}

WithTitleAndSummary(S) ==
    {i \in S : pages[i].title # <<>> /\ pages[i].summary # <<>>}

\* chat.primary lists the chat.result_limit longest pages of S, longest
\* first, each once and tagged; the call fell back iff S is empty
LongestOf(S) ==
    /\ chat.pc = "FellBack" <=> S = {}
    /\ Len(chat.primary) = Min(chat.result_limit, Cardinality(S))
    /\ \A k \in DOMAIN chat.primary :
          /\ chat.primary[k].id \in S
          /\ chat.primary[k] = [is_best_result |-> TRUE] @@ pages[chat.primary[k].id]
          /\ \A j \in 1..(k - 1) :
                /\ chat.primary[j].id # chat.primary[k].id
                /\ Len(chat.primary[j].content) >= Len(chat.primary[k].content)
          /\ \A i \in S \ Ids(chat.primary) :
                Len(pages[i].content) <= Len(chat.primary[k].content)

Within(a, b) ==
    \E i \in 0..(Len(b) - Len(a)) :
        \A j \in 1..Len(a) : LowerChar(b[i + j]) = LowerChar(a[j])

\* the sites get_all_sites listed in the call whose name contains a
\* pattern of the filter or is contained in one
NamedByFilter ==
    {site.id : site \in {site \in SeqToSet(GetAllSites(chat.fault)) :
        \E k \in DOMAIN chat.search_sites :
            \/ Within(chat.search_sites[k], site.name)
            \/ Within(site.name, chat.search_sites[k])}}

RegularRan ==
    chat.strategy = "REGULAR_SEARCH" /\ chat.pc \in {"Found", "Empty"}

\* C22: in REGULAR a site that get_all_sites lists is searched iff its
\* lower-cased name contains a lower-cased pattern of the filter or is
\* contained in one (no site is, when the filter is empty); the search over
\* all sites is run iff the filter is empty, no site matched or every
\* per-site search returned nothing; otherwise every returned result is a
\* page of a matched site.
C22_SiteFilter ==
    RegularRan =>
        /\ SeqToSet(chat.searched) = NamedByFilter
        /\ chat.unfiltered <=>
              \/ chat.search_sites = <<>>
              \/ NamedByFilter = {}
              \/ \A s \in NamedByFilter :
                    CrawlerSearch(pages, chat.query, chat.embedding,
                                  chat.similarity_threshold, chat.result_limit,
                                  s, chat.fault) = <<>>
        /\ ~chat.unfiltered =>
              \A k \in DOMAIN chat.res : chat.res[k].site_id \in NamedByFilter

\* a filtered REGULAR search answered from the one site its filter names,
\* on a store where the search over all sites finds a page of another site
C22_Witness ==
    /\ RegularRan /\ chat.pc = "Found" /\ ~chat.unfiltered
    /\ Cardinality(NamedByFilter) = 1
    /\ \E r \in SeqToSet(CrawlerSearch(pages, chat.query, chat.embedding,
                                       chat.similarity_threshold, 2, 0, chat.fault)) :
          r.site_id \notin NamedByFilter


(***************************************************************************)
(* Properties of URL_SEARCH (SpecChat).                                    *)
(***************************************************************************)
\* the call ran _search_for_urls to its return statement or to its call of
\* _regular_search
UrlSearchRan ==
    chat.strategy = "URL_SEARCH" /\ chat.pc \in {"Found", "FellBack"}

\* the sites URL_SEARCH takes its pages from: every site when the filter is
\* empty, else the sites whose name contains a pattern of the filter
UrlSearchSites ==
    IF chat.search_sites = <<>> THEN {Sites[k].id : k \in DOMAIN Sites}
    ELSE {site.id : site \in {site \in SeqToSet(Sites) :
            \E k \in DOMAIN chat.search_sites :
                Within(chat.search_sites[k], site.name)}}

\* C23 as claimed, of a call the store answers: URL_SEARCH returns the
\* `limit` non-chunk pages of the candidate sites with the greatest ids, by
\* id descending and each tagged is_url_result, and REGULAR is invoked iff
\* the candidate sites have no non-chunk page.
C23_NewestOfCandidates ==
    (UrlSearchRan /\ ~chat.fault) =>
        LET S == UNION {NonChunkOf(s) : s \in UrlSearchSites}
        IN  /\ chat.pc = "FellBack" <=> S = {}
            /\ Len(chat.primary) = Min(chat.result_limit, Cardinality(S))
            /\ \A k \in DOMAIN chat.primary :
                  /\ chat.primary[k].id \in S
                  /\ chat.primary[k].is_url_result
                  /\ chat.primary[k].url = pages[chat.primary[k].id].url
                  /\ \A j \in 1..(k - 1) : chat.primary[j].id > chat.primary[k].id
                  /\ \A i \in S \ Ids(chat.primary) : i < chat.primary[k].id

\* C30 as claimed: the list URL_SEARCH returns holds no page twice.
C30_NoPageTwice ==
    UrlSearchRan =>
        \A j, k \in DOMAIN chat.primary :
            chat.primary[j].id = chat.primary[k].id => j = k

SitesOf(results) == {results[k].site_id : k \in DOMAIN results}

\* C24 as claimed, on a store whose non-chunk pages all have a title and a
\* summary: URL_SEARCH and BEST_CONTENT, run with the same filter and a limit
\* that cuts nothing, list pages of the same sites, which are the sites
\* that match the filter (none if no site matches) or, when the filter is
\* empty, all sites that hold a non-chunk page.
C24_SameCandidateSites ==
    ((UrlSearchRan \/ BestContentRan) /\ ~chat.fault
        /\ \A i \in RowIds(pages) :
              ~pages[i].is_chunk => pages[i].title # <<>> /\ pages[i].summary # <<>>)
    => /\ SitesOf(SearchForUrls(pages, chat.search_sites, 2 * Len(pages), FALSE))
            = SitesOf(SearchForBestContent(pages, chat.search_sites,
                                           2 * Len(pages), FALSE))
       /\ (chat.search_sites # <<>> /\ NamedByFilter = {}) => chat.primary = <<>>


(***************************************************************************)
(* Properties of the waterfall of search_by_text.                          *)
(***************************************************************************)
\* the rows the relaxed statement selects: the query occurs in the title or
\* in the content, case ignored, and the row is of the site asked for (no
\* row is, when site_id is not an integer)
RelaxedMatches(query, site_id) ==
    {i \in RowIds(pages) :
        /\ Within(query, pages[i].title) \/ Within(query, pages[i].content)
        /\ IsNone(site_id) \/ pages[i].site_id = site_id}

\* the call returned the empty list only after every stage, up to the
\* relaxed statement, was executed and the relaxed statement selects no row
Exhausted ==
    ret.res = <<>> =>
        /\ RelaxedMatches(ret.query, ret.site_id) = {}
        /\ IsMalformed(ret.site_id) \/ ret.stages = <<"title", "fts", "ilike">>

C26_OnlyThatSite ==
    (ret.op = "hybrid_search" /\ ret.site_id \in SiteIds) =>
        \A k \in DOMAIN ret.res :
            /\ ret.res[k].site_id = ret.site_id
            /\ pages[ret.res[k].id].site_id = ret.site_id

\* a call for site 1 failed, fell back to search_by_text and returned a
\* page, on a store where a page of site 2 has the query in its title
C26_Witness ==
    /\ ret.op = "hybrid_search" /\ ret.site_id = 1
    /\ ret.path = "error" /\ ret.res # <<>>
    /\ \E i \in RowIds(pages) :
          pages[i].site_id = 2 /\ Within(ret.query, pages[i].title)


(***************************************************************************)
(* Properties of one add_pages call on a stored site (SpecIngest).         *)
(***************************************************************************)
\* the call wrote the chunk: a row with its url and chunk_index is among
\* the rows whose ids the call returned
ChunkWritten(c) ==
    \E k \in DOMAIN ret.ids :
        /\ pages[ret.ids[k]].is_chunk
        /\ pages[ret.ids[k]].url = c.url
        /\ pages[ret.ids[k]].chunk_index = c.chunk_index

\* C27 as claimed: add_pages stores a submitted chunk whenever the store
\* holds a non-chunk page with the chunk's url stripped of its fragment,
\* written by this call or by an earlier one; it skips a chunk only when the
\* store holds no such page.
C27_ChunkOfStoredParent ==
    (ret.op = "add_pages" /\ ret.fault = "none") =>
        \A k \in DOMAIN ret.batch :
            (/\ ret.batch[k].is_chunk
             /\ \E i \in RowIds(pages) :
                   ~pages[i].is_chunk /\ pages[i].url = StripFragment(ret.batch[k].url))
            => ChunkWritten(ret.batch[k])

\* C28 as claimed: the row of every id add_pages(site_id, pages) returns
\* has the site_id of the call, also when its url was stored under another
\* site.
C28_RowOfThatSite ==
    ret.op = "add_pages" =>
        \A k \in DOMAIN ret.ids : pages[ret.ids[k]].site_id = ret.site_id

\* C29 as claimed: when add_pages returns [] because of an error, in the
\* parent phase or in the chunk phase, the store is as it was before the
\* call.
C29_AllOrNothing ==
    (ret.op = "add_pages" /\ ret.fault # "none") =>
        ret.ids = <<>> /\ pages = ret.before

\* the last page of the batch that is not a chunk and has the url
LastSubmitted(url) ==
    LET S == {k \in DOMAIN ret.batch :
                ~ret.batch[k].is_chunk /\ ret.batch[k].url = url}
    IN  ret.batch[CHOOSE k \in S : \A j \in S : j <= k]

SubmittedUrls ==
    {ret.batch[k].url : k \in {k \in DOMAIN ret.batch : ~ret.batch[k].is_chunk}}

\* C29: when add_pages returns [] because of an error in the parent phase,
\* the store is as it was before the call; when the error is in the chunk
\* phase, the non-chunk pages of the call stay stored, inserted or updated
\* with what the call submitted, no chunk of the call is written, and every
\* other row is as it was.
C29_ParentsCommitted ==
    (ret.op = "add_pages" /\ ret.fault # "none") =>
        /\ ret.ids = <<>>
        /\ ret.fault = "parents" => pages = ret.before
        /\ ret.fault = "chunks" =>
              /\ Len(pages) >= Len(ret.before)
              /\ \A url \in SubmittedUrls :
                    \E i \in RowIds(pages) :
                        /\ ~pages[i].is_chunk /\ pages[i].url = url
                        /\ pages[i].title = LastSubmitted(url).title
                        /\ pages[i].content = LastSubmitted(url).content
                        /\ pages[i].summary = LastSubmitted(url).summary
              /\ \A i \in RowIds(pages) :
                    \/ i \in RowIds(ret.before) /\ pages[i] = ret.before[i]
                    \/ ~pages[i].is_chunk /\ pages[i].url \in SubmittedUrls

\* a call that submitted a page and a chunk failed in the chunk phase: it
\* returned [] and the store holds the page, which it did not hold before
C29_Witness ==
    /\ ret.op = "add_pages" /\ ret.fault = "chunks" /\ ret.ids = <<>>
    /\ \E k \in DOMAIN ret.batch : ret.batch[k].is_chunk
    /\ Len(pages) > Len(ret.before)

====
